---- MODULE Spec2Model ----
(***************************************************************************)
(* rcview_pytools.extras: the IPython RCActivityIndicator, fix_fgdb_files, *)
(* latlon_to_usng / usng_to_latlon and the patched                         *)
(* Item.copy_feature_layer_collection, each as a state machine of its own  *)
(* (SpecIndicator, SpecFgdb, SpecUsng, SpecCopy) over one set of variables.*)
(* Python strings that the code slices or splits are sequences of          *)
(* one-character strings; None is the string "None".                       *)
(***************************************************************************)
EXTENDS Integers, Sequences, FiniteSets

VARIABLES
    active,      \* RCActivityIndicator._active
    symbol,      \* RCActivityIndicator._symbol
    text,        \* RCActivityIndicator._text
    display,     \* RCActivityIndicator._display: "None" or "handle"
    handles,     \* number of display handles created by display(...)
    shown,       \* what the notebook output was last told to show
    lastCall,    \* the last of start/stop/stop_and_persist/succeed/fail/warn
    raised,      \* the exception raised by the last indicator operation
    fgdb,        \* the last fix_fgdb_files run: directory before, after, outcome
    usng,        \* the last latlon_to_usng / usng_to_latlon run
    copy         \* the last copy_feature_layer_collection call and its outcome

indicatorVars == <<active, symbol, text, display, handles, shown, lastCall, raised>>
vars == <<active, symbol, text, display, handles, shown, lastCall, raised,
          fgdb, usng, copy>>

(***************************************************************************)
(* RCActivityIndicator (the IN_IPYTHON branch)                             *)
(***************************************************************************)

\* The text values the callers pass (constructor, succeed/fail/warn, setter).
Texts == {"Processing", "Done", "Oops"}

RED_CROSS == "red cross"
GREEN_CHECK == "green check"
RED_X == "red x"
GOLD_WARNING == "gold warning"

\* Nothing displayed yet, or the output area cleared by clear_output().
Blank == [symbol |-> "", text |-> "", ellipsis |-> FALSE, visible |-> FALSE]

\* _display_text: '{} <i>{}{}</i>'.format(symbol, text, '...' if active else '')
display_text(sym, txt, act) ==
    [symbol |-> sym, text |-> txt, ellipsis |-> act, visible |-> TRUE]

\* _print: self._display.update(self._display_text); with _display None the
\* attribute lookup on None raises AttributeError and nothing is shown.
print_raises(disp) == IF disp = "None" THEN "AttributeError" ELSE "none"

print_shown(disp, sym, txt, act, old) ==
    IF disp = "None" THEN old ELSE display_text(sym, txt, act)

\* __init__(text): the indicator as constructed.
init(txt) ==
    /\ symbol = RED_CROSS
    /\ active = FALSE
    /\ text = txt
    /\ display = "None"
    /\ handles = 0
    /\ shown = Blank
    /\ lastCall = "none"
    /\ raised = "none"

IndicatorInit == \E txt \in Texts : init(txt)

\* An indicator constructed with the default text and left alone.
IndicatorIdle == init("Processing")

start ==
    /\ active' = TRUE
    /\ IF display = "None"
       THEN /\ display' = "handle"
            /\ handles' = handles + 1
            /\ shown' = display_text(symbol, text, TRUE)
            /\ raised' = "none"
       ELSE /\ shown' = print_shown(display, symbol, text, TRUE, shown)
            /\ raised' = print_raises(display)
            /\ UNCHANGED <<display, handles>>
    /\ lastCall' = "start"
    /\ UNCHANGED <<symbol, text, fgdb, usng, copy>>

stop ==
    /\ active' = FALSE
    /\ shown' = Blank
    /\ raised' = "none"
    /\ lastCall' = "stop"
    /\ UNCHANGED <<symbol, text, display, handles, fgdb, usng, copy>>

stop_and_persist ==
    /\ active' = FALSE
    /\ shown' = print_shown(display, symbol, text, FALSE, shown)
    /\ raised' = print_raises(display)
    /\ lastCall' = "stop_and_persist"
    /\ UNCHANGED <<symbol, text, display, handles, fgdb, usng, copy>>

succeed ==
    \E t \in Texts :
        /\ active' = FALSE
        /\ symbol' = GREEN_CHECK
        /\ text' = t
        /\ shown' = print_shown(display, GREEN_CHECK, t, FALSE, shown)
        /\ raised' = print_raises(display)
        /\ lastCall' = "succeed"
        /\ UNCHANGED <<display, handles, fgdb, usng, copy>>

fail ==
    \E t \in Texts :
        /\ active' = FALSE
        /\ symbol' = RED_X
        /\ text' = t
        /\ shown' = print_shown(display, RED_X, t, FALSE, shown)
        /\ raised' = print_raises(display)
        /\ lastCall' = "fail"
        /\ UNCHANGED <<display, handles, fgdb, usng, copy>>

warn ==
    \E t \in Texts :
        /\ active' = FALSE
        /\ symbol' = GOLD_WARNING
        /\ text' = t
        /\ shown' = print_shown(display, GOLD_WARNING, t, FALSE, shown)
        /\ raised' = print_raises(display)
        /\ lastCall' = "warn"
        /\ UNCHANGED <<display, handles, fgdb, usng, copy>>

set_text ==
    \E value \in Texts :
        /\ text' = value
        /\ shown' = print_shown(display, symbol, value, active, shown)
        /\ raised' = print_raises(display)
        /\ UNCHANGED <<active, symbol, display, handles, lastCall, fgdb, usng, copy>>

IndicatorNext ==
    \/ start
    \/ stop
    \/ stop_and_persist
    \/ succeed
    \/ fail
    \/ warn
    \/ set_text

(***************************************************************************)
(* fix_fgdb_files                                                          *)
(***************************************************************************)

\* File names are sequences of characters over this alphabet.
NameChars == {"a", "b", "\\"}

MaxNameLen == 5

MaxFiles == 2

\* The names of the files of a directory: no name starts or ends with a
\* backslash or holds two in a row.
FileNames ==
    {n \in UNION {[1..k -> NameChars] : k \in 1..MaxNameLen} :
        /\ n[1] # "\\"
        /\ n[Len(n)] # "\\"
        /\ \A k \in 1..(Len(n) - 1) : ~(n[k] = "\\" /\ n[k + 1] = "\\")}

\* A directory: a set of files, each with its name and its content; a file's
\* content is identified by the name it had when the directory was listed.
\* The subsets of S with at most k elements.
RECURSIVE SubsetsUpTo(_, _)
SubsetsUpTo(S, k) ==
    IF k = 0 THEN {{}}
    ELSE LET smaller == SubsetsUpTo(S, k - 1)
         IN  smaller \cup {p \cup {x} : p \in smaller, x \in S}

Directories ==
    {{[name |-> n, content |-> n] : n \in ns} : ns \in SubsetsUpTo(FileNames, MaxFiles)}

\* The orders in which os.listdir() may return the names of directory d.
Listings(d) ==
    LET ns == {f.name : f \in d}
    IN  {o \in [1..Cardinality(ns) -> ns] : {o[i] : i \in DOMAIN o} = ns}

\* The index of the first occurrence of character c in s, 0 when there is none.
RECURSIVE Find(_, _, _)
Find(s, c, i) ==
    IF i > Len(s) THEN 0
    ELSE IF s[i] = c THEN i
    ELSE Find(s, c, i + 1)

\* str.split(sep): the pieces of s between the occurrences of sep.
RECURSIVE split(_, _)
split(s, sep) ==
    LET i == Find(s, sep, 1)
    IN  IF i = 0 THEN <<s>>
        ELSE <<SubSeq(s, 1, i - 1)>> \o split(SubSeq(s, i + 1, Len(s)), sep)

\* os.rename(src, dst) on a POSIX file system: an empty dst or a missing src
\* raises FileNotFoundError; an existing dst is silently replaced.
rename_raises(d, src, dst) ==
    IF dst = <<>> \/ ~(\E f \in d : f.name = src) THEN "FileNotFoundError"
    ELSE "none"

rename(d, src, dst) ==
    IF src = dst THEN d
    ELSE {f \in d : f.name # src /\ f.name # dst}
             \cup {[name |-> dst, content |-> f.content] : f \in {g \in d : g.name = src}}

\* The loop of fix_fgdb_files over the listing, from position i on: the
\* directory it leaves and how it ended (file.split('\\')[1] raises IndexError
\* for a name without a backslash).
RECURSIVE rename_all(_, _, _)
rename_all(d, listing, i) ==
    IF i > Len(listing) THEN [after |-> d, outcome |-> "ok"]
    ELSE LET file == listing[i]
             parts == split(file, "\\")
         IN  IF Len(parts) < 2 THEN [after |-> d, outcome |-> "IndexError"]
             ELSE IF rename_raises(d, file, parts[2]) # "none"
                  THEN [after |-> d, outcome |-> rename_raises(d, file, parts[2])]
             ELSE rename_all(rename(d, file, parts[2]), listing, i + 1)

\* A directory on which fix_fgdb_files has not run yet.
Untouched(d) == [called |-> FALSE, before |-> {}, dir |-> d, outcome |-> "none"]

FgdbInit == \E d \in Directories : fgdb = Untouched(d)

FgdbIdle == fgdb = Untouched({})

\* One run of fix_fgdb_files on the directory as it is now.
fix_fgdb_files ==
    \E listing \in Listings(fgdb.dir) :
        LET run == rename_all(fgdb.dir, listing, 1)
        IN  /\ fgdb' = [called |-> TRUE, before |-> fgdb.dir, dir |-> run.after,
                         outcome |-> run.outcome]
            /\ UNCHANGED <<indicatorVars, usng, copy>>

FgdbNext == fix_fgdb_files

(***************************************************************************)
(* latlon_to_usng and usng_to_latlon                                       *)
(***************************************************************************)

\* "The precision argument can range from 0 to 5".
MaxPrecision == 5

\* The grid designators and digits mgrs.MGRS().toMGRS may put in its result.
\* Between 80 S and 84 N a value starts with a two-digit UTM zone, a latitude
\* band letter and two 100 km square letters; nearer the poles (UPS) it has
\* no zone digits and starts with three letters.
UTMDesignators == {<<"1", "8", "S", "U", "J">>, <<"0", "4", "Q", "F", "J">>}

UPSDesignators == {<<"Z", "A", "H">>, <<"Y", "Z", "G">>}

GridDigits == {"0", "7"}

\* m.toMGRS(latitude, longitude, MGRSPrecision=precision).decode('ascii'):
\* the values it may return for some point, a designator followed by
\* `precision` easting digits and `precision` northing digits.
toMGRS(precision) ==
    {d \o digits : d \in UTMDesignators \cup UPSDesignators,
                   digits \in [1..(2 * precision) -> GridDigits]}

\* Python's s[a:b] with non-negative bounds, clamped to the string.
Slice(s, a, b) ==
    LET hi == IF b < Len(s) THEN b ELSE Len(s)
    IN  IF a >= hi THEN <<>> ELSE SubSeq(s, a + 1, hi)

\* sep.join(parts)
RECURSIVE join(_, _)
join(sep, parts) ==
    IF Len(parts) = 0 THEN <<>>
    ELSE IF Len(parts) = 1 THEN parts[1]
    ELSE parts[1] \o <<sep>> \o join(sep, Tail(parts))

\* s.replace(c, '')
RECURSIVE remove(_, _)
remove(s, c) ==
    IF Len(s) = 0 THEN <<>>
    ELSE IF Head(s) = c THEN remove(Tail(s), c)
    ELSE <<Head(s)>> \o remove(Tail(s), c)

\* usng_fmt with the second group cut as usng[3:6]: one character is repeated.
usng_fmt_overlap(mgrs, precision) ==
    LET head == <<Slice(mgrs, 0, 3), Slice(mgrs, 3, 6)>>
        gc == Slice(mgrs, 5, Len(mgrs))
        idx_split == Len(gc) \div 2
    IN  IF precision > 0
        THEN join(" ", head \o <<Slice(gc, 0, idx_split), Slice(gc, idx_split, Len(gc))>>)
        ELSE join(" ", head)

\* The formatting of latlon_to_usng, from toMGRS's value to the result.
usng_fmt(mgrs, precision) ==
    LET head == <<Slice(mgrs, 0, 3), Slice(mgrs, 3, 5)>>
        gc == Slice(mgrs, 5, Len(mgrs))
        idx_split == Len(gc) \div 2
    IN  IF precision > 0
        THEN join(" ", head \o <<Slice(gc, 0, idx_split), Slice(gc, idx_split, Len(gc))>>)
        ELSE join(" ", head)

\* A point and a precision for which latlon_to_usng has not run yet; the
\* point is given by the value toMGRS returns for it.
Pending(precision, mgrs) ==
    [called |-> FALSE, precision |-> precision, mgrs |-> mgrs, result |-> <<>>,
     parsed |-> FALSE, toLatLon |-> <<>>]

UsngInit ==
    \E precision \in 0..MaxPrecision :
        \E mgrs \in toMGRS(precision) : usng = Pending(precision, mgrs)

UsngIdle == usng = Pending(0, <<"1", "8", "S", "U", "J">>)

latlon_to_usng ==
    /\ ~usng.called
    /\ usng' = [usng EXCEPT !.called = TRUE,
                             !.result = usng_fmt(usng.mgrs, usng.precision)]
    /\ UNCHANGED <<indicatorVars, fgdb, copy>>

\* usng_to_latlon applied to the value latlon_to_usng returned: the string it
\* hands to m.toLatLon.
usng_to_latlon ==
    /\ usng.called
    /\ ~usng.parsed
    /\ usng' = [usng EXCEPT !.parsed = TRUE, !.toLatLon = remove(usng.result, " ")]
    /\ UNCHANGED <<indicatorVars, fgdb, copy>>

UsngNext ==
    \/ latlon_to_usng
    \/ usng_to_latlon

(***************************************************************************)
(* Item.copy_feature_layer_collection (the patched method)                 *)
(***************************************************************************)

\* The names the module binds when it is imported: its imports, its
\* functions and its class.  The method looks its global names up here, and
\* then among the builtins.
module_globals ==
    {"_os", "_urllib", "_mgrs", "_numpy", "OS_WINDOWS", "IN_IPYTHON", "_Halo", "Item",
     "round_significant", "fix_fgdb_files", "google_maps_url", "apple_maps_url",
     "latlon_to_usng", "usng_to_latlon", "RCActivityIndicator",
     "_patched_copy_feature_layer_collection"}

builtins == {"isinstance", "len", "dict", "list", "tuple", "str", "ValueError", "Exception"}

name_resolves(n) == n \in module_globals \cup builtins

ItemTypes == {"Feature Service", "Feature Layer Collection", "Web Map"}

\* The most layers and tables the copied service has.
MaxLayers == 1

MaxTables == 1

\* The longest layers selection a caller passes.
MaxSelLen == 2

\* The highest suffix already taken among the service names of the portal.
MaxTaken == 2

DigitChars == <<"0", "1", "2", "3", "4", "5", "6", "7", "8", "9">>

\* str(i) for a non-negative integer.
RECURSIVE str_int(_)
str_int(i) ==
    IF i < 10 THEN <<DigitChars[i + 1]>>
    ELSE str_int(i \div 10) \o <<DigitChars[(i % 10) + 1]>>

\* The comma separated string of a list of non-negative integers.
csv(ints) == join(",", [k \in 1..Len(ints) |-> str_int(ints[k])])

\* A layers or tables argument: None, a list of integers, a string, or a
\* value of another type.
NoSelection == [kind |-> "None", list |-> <<>>, str |-> <<>>]

ListSelections(maxIndex, maxLen) ==
    {[kind |-> "list", list |-> l, str |-> <<>>] :
        l \in UNION {[1..n -> -1..maxIndex] : n \in 1..maxLen}}

StrSelections(maxIndex, maxLen) ==
    {[kind |-> "str", list |-> <<>>, str |-> csv(l)] :
        l \in UNION {[1..n -> 0..maxIndex] : n \in 1..maxLen}}

OtherSelection == [kind |-> "other", list |-> <<>>, str |-> <<>>]

Selections(maxIndex, maxLen) ==
    {NoSelection, OtherSelection}
        \cup ListSelections(maxIndex, maxLen) \cup StrSelections(maxIndex, maxLen)

\* The owner argument: None, a user name, or a User object with a username.
Owners ==
    {[kind |-> "None", name |-> ""], [kind |-> "str", name |-> "alice"],
     [kind |-> "User", name |-> "bob"]}

\* A service name: the requested base name, with suffix i standing for
\* service_name + "_%s" % i and suffix 0 for the bare name.
ServiceName(i) == [base |-> "svc", suffix |-> i]

\* What the portal answers: create_service, add_to_definition and delete
\* each succeed, report failure or raise.
Portals ==
    [create : {"ok", "raises"}, add_to_definition : {"success", "failure", "raises"},
     delete : {"ok", "raises"}]

\* dict(parent.properties) of the copied service, by key.
parent_properties == {"capabilities", "maxRecordCount", "name", "layers", "serviceItemId"}

allowed ==
    {"description", "allowGeometryUpdates", "units", "syncEnabled",
     "serviceDescription", "capabilities", "_ssl",
     "supportsDisconnectedEditing", "maxRecordCount",
     "supportsApplyEditsWithGlobalIds", "supportedQueryFormats",
     "xssPreventionInfo", "copyrightText", "currentVersion",
     "syncCapabilities", "hasStaticData", "hasVersionedData",
     "editorTrackingInfo"}

\* dict(l.manager.properties) of a layer or table, by key.
layer_properties == {"name", "fields", "indexes", "adminLayerInfo"}

Calls ==
    [type : ItemTypes,
     layers : Selections(MaxLayers, MaxSelLen),
     tables : Selections(MaxTables, 1),
     owner : Owners,
     nLayers : 0..MaxLayers,
     nTables : 0..MaxTables,
     taken : SUBSET {k \in 0..MaxTaken : k # 1},
     portal : Portals]

NoCreate ==
    [called |-> FALSE, name |-> ServiceName(0), params_name |-> ServiceName(0),
     params_keys |-> {}, title |-> ServiceName(0), owner |-> "None"]

\* The outcome of a call before anything happened.
NoOutcome ==
    [returned |-> "None", exc |-> "none", line |-> 0,
     idx_layers |-> <<>>, idx_tables |-> <<>>,
     create_service |-> NoCreate, add_defs |-> [layers |-> <<>>, tables |-> <<>>],
     created |-> FALSE, deletes |-> 0, left_behind |-> FALSE]

raise(o, exc, line) == [o EXCEPT !.returned = "raised", !.exc = exc, !.line = line]

\* The while loop over is_service_name_available: the first suffix from i
\* on that is free.
RECURSIVE first_free(_, _)
first_free(taken, i) == IF i \in taken THEN first_free(taken, i + 1) ELSE i

choose_service_name(taken) ==
    IF 0 \in taken THEN ServiceName(first_free(taken, 2)) ELSE ServiceName(0)

\* for idx in <list>: idx_layers.append(self.layers[idx]) over a list of n
\* items; the items are named by their position 0..n-1.
RECURSIVE index_list(_, _, _)
index_list(idxs, n, line) ==
    IF Len(idxs) = 0 THEN [exc |-> "none", line |-> 0, items |-> <<>>]
    ELSE LET idx == Head(idxs)
         IN  IF idx >= n \/ idx < -n
             THEN [exc |-> "IndexError", line |-> line, items |-> <<>>]
             ELSE LET rest == index_list(Tail(idxs), n, line)
                  IN  [rest EXCEPT !.items = <<IF idx < 0 THEN idx + n ELSE idx>> \o @]

\* The selection of layers (or tables) by the argument arg among n items.
\* A string is split at its commas and each piece, a str, is used as the list
\* index, which raises TypeError.
select(arg, n, line) ==
    IF arg.kind = "None" THEN [exc |-> "none", line |-> 0, items |-> <<>>]
    ELSE IF arg.kind = "list" THEN index_list(arg.list, n, line + 3)
    ELSE IF arg.kind = "str"
         THEN IF Len(split(arg.str, ",")) > 0
              THEN [exc |-> "TypeError", line |-> line + 7, items |-> <<>>]
              ELSE [exc |-> "none", line |-> 0, items |-> <<>>]
    ELSE [exc |-> "ValueError", line |-> line + 10, items |-> <<>>]

\* v = dict(l.manager.properties) without 'indexes' and 'adminLayerInfo'.
definition_of(l) == [id |-> l, keys |-> layer_properties \ {"indexes", "adminLayerInfo"}]

\* Lines 279 to 315: create_service, add_to_definition, and the delete of the
\* new item when add_to_definition reports failure.
create_and_fill(c, o, service_name, owner) ==
    LET args == [called |-> TRUE, name |-> service_name, params_name |-> service_name,
                 params_keys |-> (parent_properties \cap allowed) \cup {"name"},
                 title |-> service_name, owner |-> owner]
        o1 == [o EXCEPT !.create_service = args]
    IN  IF c.portal.create = "raises" THEN raise(o1, "Exception", 279)
        ELSE LET o2 == [o1 EXCEPT !.created = TRUE, !.left_behind = TRUE,
                            !.add_defs =
                                [layers |-> [k \in 1..Len(o.idx_layers) |->
                                                definition_of(o.idx_layers[k])],
                                 tables |-> [k \in 1..Len(o.idx_tables) |->
                                                definition_of(o.idx_tables[k])]]]
             IN  IF c.portal.add_to_definition = "raises" THEN raise(o2, "Exception", 308)
                 ELSE IF c.portal.add_to_definition = "success"
                      THEN [o2 EXCEPT !.returned = "Item"]
                 ELSE [o2 EXCEPT !.returned = "None", !.deletes = 1,
                                 !.left_behind = (c.portal.delete = "raises")]

\* Lines 219 to 278: the service name, the selection of layers and tables.
select_and_create(c, o, owner) ==
    LET service_name == choose_service_name(c.taken)
        ls == select(c.layers, c.nLayers, 250)
        ts == select(c.tables, c.nTables, 261)
    IN  IF ~(c.nTables > 0 \/ c.nLayers > 0) THEN raise(o, "Exception", 249)
        ELSE IF c.layers.kind # "None" /\ ls.exc # "none" THEN raise(o, ls.exc, ls.line)
        ELSE IF c.tables.kind # "None" /\ ts.exc # "none"
             THEN raise([o EXCEPT !.idx_layers = ls.items], ts.exc, ts.line)
        ELSE create_and_fill(c, [o EXCEPT !.idx_layers = ls.items, !.idx_tables = ts.items],
                             service_name, owner)

\* The whole method, from call c to its outcome.
copy_feature_layer_collection(c) ==
    IF c.type # "Feature Service" /\ c.type # "Feature Layer Collection"
    THEN [NoOutcome EXCEPT !.returned = "None"]
    ELSE IF c.layers.kind = "None" /\ c.tables.kind = "None"
         THEN raise(NoOutcome, "ValueError", 215)
    ELSE IF ~name_resolves("User") THEN raise(NoOutcome, "NameError", 217)
    ELSE select_and_create(c, NoOutcome,
                           IF c.owner.kind = "None" THEN "None" ELSE c.owner.name)

NoCall ==
    [type |-> "Web Map", layers |-> NoSelection, tables |-> NoSelection,
     owner |-> [kind |-> "None", name |-> ""], nLayers |-> 0, nTables |-> 0,
     taken |-> {}, portal |-> [create |-> "ok", add_to_definition |-> "success",
                               delete |-> "ok"]]

CopyInit == \E c \in Calls : copy = [called |-> FALSE, call |-> c, out |-> NoOutcome]

CopyIdle == copy = [called |-> FALSE, call |-> NoCall, out |-> NoOutcome]

call_copy_feature_layer_collection ==
    /\ ~copy.called
    /\ copy' = [copy EXCEPT !.called = TRUE,
                             !.out = copy_feature_layer_collection(copy.call)]
    /\ UNCHANGED <<indicatorVars, fgdb, usng>>

CopyNext == call_copy_feature_layer_collection

(***************************************************************************)
(* Specifications                                                          *)
(***************************************************************************)

InitIndicator == IndicatorInit /\ FgdbIdle /\ UsngIdle /\ CopyIdle

InitFgdb == IndicatorIdle /\ FgdbInit /\ UsngIdle /\ CopyIdle

InitUsng == IndicatorIdle /\ FgdbIdle /\ UsngInit /\ CopyIdle

InitCopy == IndicatorIdle /\ FgdbIdle /\ UsngIdle /\ CopyInit

SpecIndicator == InitIndicator /\ [][IndicatorNext]_vars

SpecFgdb == InitFgdb /\ [][FgdbNext]_vars

SpecUsng == InitUsng /\ [][UsngNext]_vars

SpecCopy == InitCopy /\ [][CopyNext]_vars

(***************************************************************************)
(* Properties of RCActivityIndicator                                       *)
(***************************************************************************)

\* The indicator is active exactly when the last of start, stop,
\* stop_and_persist, succeed, fail and warn was start.
ActiveIffStarted == active <=> (lastCall = "start")

\* The trailing ellipsis is on display exactly when the indicator is active.
EllipsisIffActive == (shown.visible /\ shown.ellipsis) <=> active

\* One display handle at most is ever created, and once created it is kept.
OneHandle == handles <= 1 /\ ((display = "handle") <=> (handles = 1))

\* The part of C8 about the fields and the display.
IndicatorStateInv == ActiveIffStarted /\ EllipsisIffActive /\ OneHandle

\* C8: after any sequence of start, stop, stop_and_persist, succeed, fail,
\* warn and text assignments the indicator is active exactly when the last
\* start/stop-like call was start, the ellipsis is rendered exactly when it
\* is active, the display handle is created at most once and reused, and no
\* re-rendering operation raises, also before the first start.
C8_IndicatorSafe == IndicatorStateInv /\ raised = "none"

(***************************************************************************)
(* Properties of fix_fgdb_files                                            *)
(***************************************************************************)

\* The part of a file name that follows the directory prefix and its
\* backslash; a name without a backslash has no prefix to strip.
stripped(n) ==
    LET i == Find(n, "\\", 1)
    IN  IF i = 0 THEN n ELSE SubSeq(n, i + 1, Len(n))

\* Every file of the directory as it was is now found under its stripped name.
AllStripped ==
    \A f \in fgdb.before :
        \E g \in fgdb.dir : g.content = f.content /\ g.name = stripped(f.name)

\* No file was lost or overwritten by another.
NoneLost == {g.content : g \in fgdb.dir} = {f.content : f \in fgdb.before}

\* C7: after fix_fgdb_files every file that was in the directory carries the
\* part of its name after the directory prefix and backslash, no file is lost
\* or overwritten, and the run completes for every directory listing, also
\* one with a file whose name has no backslash.
C7_FixFgdbFiles ==
    fgdb.called => fgdb.outcome = "ok" /\ AllStripped /\ NoneLost

\* A directory as fix_fgdb_files expects it: every name is one prefix, one
\* backslash and a non-empty rest, and no two rests are the same.
WellFormed(d) ==
    /\ \A f \in d : Len(split(f.name, "\\")) = 2 /\ split(f.name, "\\")[2] # <<>>
    /\ \A f, g \in d : stripped(f.name) = stripped(g.name) => f = g

\* On such a directory the run completes and strips every name.
FixFgdbFilesWellFormed ==
    fgdb.called /\ WellFormed(fgdb.before) =>
        fgdb.outcome = "ok" /\ AllStripped /\ NoneLost

(***************************************************************************)
(* Properties of latlon_to_usng                                            *)
(***************************************************************************)

\* The groups of the result: its pieces between the spaces.
groups == split(usng.result, " ")

DigitSet == {DigitChars[k] : k \in 1..10}

\* A grid value that starts with a two-digit UTM zone number.
HasZone(mgrs) == Len(mgrs) >= 2 /\ mgrs[1] \in DigitSet /\ mgrs[2] \in DigitSet

\* Removing the spaces from the result gives toMGRS's value back, and that
\* is the string usng_to_latlon hands to toLatLon.
OnlySpacesInserted ==
    /\ usng.called => remove(usng.result, " ") = usng.mgrs
    /\ usng.parsed => usng.toLatLon = usng.mgrs

\* Two groups of 3 and 2 characters for precision 0; for precision 1 to 5
\* four groups, the last two of `precision` characters each.
Grouped ==
    IF usng.precision = 0
    THEN Len(groups) = 2 /\ Len(groups[1]) = 3 /\ Len(groups[2]) = 2
    ELSE /\ Len(groups) = 4
         /\ Len(groups[3]) = usng.precision
         /\ Len(groups[4]) = usng.precision

\* C6 as stated: for every precision from 0 to 5 and every value of toMGRS
\* the result is that value with spaces inserted, in two groups (3 and 2
\* characters) for precision 0 and in four groups, the last two of
\* `precision` digits each, for precision 1 to 5.
C6_Original == OnlySpacesInserted /\ (usng.called => Grouped)

\* The groups of a value without a zone number, cut at the same places: its
\* three letters, then its first two digits (none for precision 0), then two
\* groups of `precision` - 1 digits.
GroupedWithoutZone ==
    IF usng.precision = 0
    THEN Len(groups) = 2 /\ Len(groups[1]) = 3 /\ Len(groups[2]) = 0
    ELSE /\ Len(groups) = 4
         /\ Len(groups[1]) = 3
         /\ Len(groups[2]) = 2
         /\ Len(groups[3]) = usng.precision - 1
         /\ Len(groups[4]) = usng.precision - 1

\* C6 as amended: the result is always toMGRS's value with spaces inserted;
\* the grouping is as stated when that value starts with a UTM zone number,
\* and a value without one is cut at the same places into other groups.
C6_SpacesOnly ==
    /\ OnlySpacesInserted
    /\ usng.called /\ HasZone(usng.mgrs) => Grouped
    /\ usng.called /\ ~HasZone(usng.mgrs) => GroupedWithoutZone

\* A 1 m grid value with a zone number was formatted and passed back through
\* usng_to_latlon.
C6_Witness == usng.parsed /\ usng.precision = MaxPrecision /\ HasZone(usng.mgrs)

(***************************************************************************)
(* Properties of copy_feature_layer_collection                             *)
(***************************************************************************)

\* The item is of a type the method copies.
Copyable(c) == c.type = "Feature Service" \/ c.type = "Feature Layer Collection"

\* A list of indexes that each name one of n items.
InRange(idxs, n) == \A k \in 1..Len(idxs) : idxs[k] >= -n /\ idxs[k] < n

\* int(s) for a string of decimal digits.
RECURSIVE int_str(_)
int_str(s) ==
    IF Len(s) = 0 THEN 0
    ELSE 10 * int_str(SubSeq(s, 1, Len(s) - 1))
             + (CHOOSE d \in 0..9 : DigitChars[d + 1] = s[Len(s)])

\* The list of integers a comma separated string stands for.
ints_of(str) == [k \in 1..Len(split(str, ",")) |-> int_str(split(str, ",")[k])]

\* The indexes a layers or tables argument asks for, whichever its form.
asked(sel) == IF sel.kind = "str" THEN ints_of(sel.str) ELSE sel.list

\* A selection given as a list of integers that each name an item.
ValidList(sel, n) == sel.kind = "None" \/ (sel.kind = "list" /\ InRange(sel.list, n))

\* A selection given as a list or as a string, naming items that exist.
ValidSelection(sel, n) ==
    sel.kind = "None" \/ (sel.kind \in {"list", "str"} /\ InRange(asked(sel), n))

\* The items, by position, that the indexes idxs name among n items.
picked(idxs, n) == [k \in 1..Len(idxs) |-> IF idxs[k] < 0 THEN idxs[k] + n ELSE idxs[k]]

\* A call on a copyable item that has layers or tables, with at least one of
\* layers and tables given.
Selecting(c) ==
    /\ Copyable(c)
    /\ ~(c.layers.kind = "None" /\ c.tables.kind = "None")
    /\ (c.nLayers > 0 \/ c.nTables > 0)

\* C1: for an item of type 'Feature Service' or 'Feature Layer Collection'
\* called with a valid layers and/or tables selection, the method returns the
\* newly created Item when add_to_definition reports success and None when
\* it reports failure.
C1_ReturnsItemOrNone ==
    copy.called /\ Selecting(copy.call)
        /\ ValidList(copy.call.layers, copy.call.nLayers)
        /\ ValidList(copy.call.tables, copy.call.nTables)
        /\ copy.call.portal.create = "ok"
    => /\ copy.call.portal.add_to_definition = "success" =>
              copy.out.returned = "Item" /\ copy.out.created
       /\ copy.call.portal.add_to_definition = "failure" => copy.out.returned = "None"

C4_ListOrString ==
    copy.called /\ Selecting(copy.call) =>
        /\ ValidSelection(copy.call.layers, copy.call.nLayers)
               /\ ValidSelection(copy.call.tables, copy.call.nTables)
           => /\ copy.out.idx_layers = picked(asked(copy.call.layers), copy.call.nLayers)
              /\ copy.out.idx_tables = picked(asked(copy.call.tables), copy.call.nTables)
        /\ copy.call.layers.kind = "other" => copy.out.exc = "ValueError"
        /\ ValidSelection(copy.call.layers, copy.call.nLayers)
               /\ copy.call.tables.kind = "other"
           => copy.out.exc = "ValueError"

\* The owner create_service is to be given: None for the current user, the
\* string as passed, or the username of the User passed.
owner_expected(c) == IF c.owner.kind = "None" THEN "None" ELSE c.owner.name

\* C5: owner is optional and may be a string or a User: handling it never
\* aborts the copy, and create_service receives None when it is omitted, the
\* string unchanged, or the User's username.
C5_OwnerHandled ==
    copy.called /\ Copyable(copy.call)
        /\ ~(copy.call.layers.kind = "None" /\ copy.call.tables.kind = "None")
    => /\ ~(copy.out.returned = "raised" /\ copy.out.line = 217)
       /\ copy.out.create_service.called =>
              copy.out.create_service.owner = owner_expected(copy.call)

====
